---- MODULE Spec2Model ----
(***************************************************************************)
(* A model of the potion service: the /auth router (register, login,       *)
(* logout), the cookie/JWT auth middleware and the /potions router (the    *)
(* read and analytics endpoints and the authenticated creation endpoint),  *)
(* over a document store holding a User and a Potion collection.           *)
(*                                                                         *)
(* Strings that the code transforms (names, passwords) are sequences of    *)
(* one-character strings, so that trim and escape do what the code does.   *)
(* Time is counted in hours.                                               *)
(***************************************************************************)
EXTENDS Integers, Sequences, FiniteSets, TLC

VARIABLES
    env,       \* process.env as read at module load: JWT_SECRET, COOKIE_NAME, and the build's sanitize behaviour
    users,     \* the User collection: a set of documents [_id, name, password]
    accepted,  \* history: the request bodies that register answered with 201
    potions,   \* the Potion collection: a sequence of documents, in insertion order
    audit,     \* history: for each potion, whether the creating request's cookie held a genuine token
    jar,       \* the browser's cookie jar: cookie name -> cookie value
    copied,    \* a token the client copied out of a login response
    lastAuth,  \* history: the last of login / logout the browser completed
    now,       \* the clock, in hours
    pending,   \* register handlers suspended at `await user.save()`
    resp       \* the last response sent (or the request left unanswered)

vars == <<env, users, accepted, potions, audit, jar, copied, lastAuth, now, pending, resp>>

(***************************************************************************)
(* Bounds of the model.                                                    *)
(***************************************************************************)
MaxPotions == 2
MaxTime == 36
MaxInflight == 2

(***************************************************************************)
(* Strings.                                                                *)
(***************************************************************************)
Rep(c, n) == [i \in 1..n |-> c]

IsSpace(c) == c = " "

RECURSIVE TrimLeft(_)
TrimLeft(s) == IF s # <<>> /\ IsSpace(Head(s)) THEN TrimLeft(Tail(s)) ELSE s

RECURSIVE TrimRight(_)
TrimRight(s) ==
    IF s # <<>> /\ IsSpace(s[Len(s)]) THEN TrimRight(SubSeq(s, 1, Len(s) - 1)) ELSE s

\* validator.js trim(): strips whitespace at both ends.
Trim(s) == TrimRight(TrimLeft(s))

\* validator.js escape(): replaces the HTML-significant characters by entities.
EscapeChar(c) ==
    CASE c = "&" -> <<"&", "a", "m", "p", ";">>
      [] c = "<" -> <<"&", "l", "t", ";">>
      [] c = ">" -> <<"&", "g", "t", ";">>
      [] OTHER   -> <<c>>

RECURSIVE Escape(_)
Escape(s) == IF s = <<>> THEN <<>> ELSE EscapeChar(Head(s)) \o Escape(Tail(s))

(***************************************************************************)
(* Environment and module-level configuration.                             *)
(***************************************************************************)
Unset == "<unset>"

DefaultCookieName == "demo_node+mongo_token"

DevSecret == "dev_secret"

\* src/unnamed/part_000 (auth routes): process.env.JWT_SECRET || 'dev_secret'
AuthSecret == IF env.JWT_SECRET = Unset THEN DevSecret ELSE env.JWT_SECRET

\* src/unnamed/part_000 (auth routes): process.env.COOKIE_NAME || 'demo_node+mongo_token'
AuthCookieName == IF env.COOKIE_NAME = Unset THEN DefaultCookieName ELSE env.COOKIE_NAME

\* src/middleware.js: process.env.JWT_SECRET, with no fallback (undefined when unset)
MwSecret == env.JWT_SECRET

\* src/middleware.js: the literal cookie name
MwCookieName == "demo_node+mongo_token"

CookieNames == {DefaultCookieName, "custom_cookie"}

(***************************************************************************)
(* Cookie values and tokens.  A cookie value as cookie-parser hands it to  *)
(* the handler is absent, a string, an object (a "j:" JSON cookie), or a   *)
(* string that is a JWT.  A JWT carries its claims and a signature, which  *)
(* is the HMAC of the claims under a key.  The optional claims nbf and exp  *)
(* are the empty set when absent and a singleton otherwise.                *)
(***************************************************************************)
NoCookie == [kind |-> "absent"]

StrCookie(t) == [kind |-> "string", text |-> t]

ObjCookie == [kind |-> "object"]

Hmac(key, claims) == [key |-> key, over |-> claims]

Jwt(claims, sig) == [kind |-> "jwt", claims |-> claims, sig |-> sig]

TTL == 24

\* jwt.sign(payload, secret, {expiresIn: '1d'}) at time t
jwtSign(payload, secret, t) ==
    LET claims == [id |-> payload.id, name |-> payload.name,
                   iat |-> t, nbf |-> {}, exp |-> {t + TTL}]
    IN  Jwt(claims, Hmac(secret, claims))

\* jwt.verify(token, secret) at time t: the error's name, or "ok".
\* The signature is checked first, then nbf, then exp.
jwtVerify(token, secret, t) ==
    IF token.kind # "jwt" THEN "JsonWebTokenError"               \* jwt malformed
    ELSE IF secret = Unset THEN "JsonWebTokenError"              \* secret or public key must be provided
    ELSE IF token.sig # Hmac(secret, token.claims) THEN "JsonWebTokenError"   \* invalid signature
    ELSE IF \E nbf \in token.claims.nbf : nbf > t THEN "NotBeforeError"
    ELSE IF \E exp \in token.claims.exp : t >= exp THEN "TokenExpiredError"
    ELSE "ok"

\* the four error messages (accents and the typographic apostrophe dropped)
MsgMissing == "Token d'authentification manquant ou invalide"
MsgExpired == "Session expiree, veuillez vous reconnecter."
MsgInvalid == "Jeton non valide."
MsgAuthError == "Erreur d'authentification"

\* !token || typeof token !== 'string' || token.trim() === ''
TokenMissing(v) ==
    \/ v.kind = "absent"
    \/ v.kind = "object"
    \/ v.kind = "string" /\ Trim(v.text) = <<>>

\* authMiddleware reading the claims without verifying signature or expiry
\* (jwt.decode in place of jwt.verify)
authMiddleware_decodeOnly(cookies, t) ==
    LET token == cookies[MwCookieName] IN
    IF TokenMissing(token)
    THEN [next |-> FALSE, status |-> 401, error |-> MsgMissing]
    ELSE IF token.kind = "jwt" THEN [next |-> TRUE, user |-> token.claims]
    ELSE [next |-> FALSE, status |-> 401, error |-> MsgInvalid]

\* authMiddleware without the TokenExpiredError case: an expired token gets
\* the answer of the last case
authMiddleware_noExpiredCase(cookies, t) ==
    LET token == cookies[MwCookieName] IN
    IF TokenMissing(token)
    THEN [next |-> FALSE, status |-> 401, error |-> MsgMissing]
    ELSE LET r == jwtVerify(token, MwSecret, t) IN
         CASE r = "ok" -> [next |-> TRUE, user |-> token.claims]
           [] r = "JsonWebTokenError" -> [next |-> FALSE, status |-> 401, error |-> MsgInvalid]
           [] OTHER -> [next |-> FALSE, status |-> 500, error |-> MsgAuthError]

\* authMiddleware(req, res, next) with req.cookies = cookies, at time t:
\* either next() is called with req.user set, or a response is sent.
authMiddleware(cookies, t) ==
    LET token == cookies[MwCookieName] IN
    IF TokenMissing(token)
    THEN [next |-> FALSE, status |-> 401, error |-> MsgMissing]
    ELSE LET r == jwtVerify(token, MwSecret, t) IN
         CASE r = "ok" -> [next |-> TRUE, user |-> token.claims]
           [] r = "TokenExpiredError" -> [next |-> FALSE, status |-> 401, error |-> MsgExpired]
           [] r = "JsonWebTokenError" -> [next |-> FALSE, status |-> 401, error |-> MsgInvalid]
           [] OTHER -> [next |-> FALSE, status |-> 500, error |-> MsgAuthError]

(***************************************************************************)
(* The User collection.                                                    *)
(***************************************************************************)
\* The password hash stored in place of the raw password.
Hash(password) == [hashOf |-> password]

\* user.comparePassword(candidate)
comparePassword(user, candidate) == user.password = Hash(candidate)

\* User.findOne({ name }): the documents with that name (at most one).
findByName(name) == {u \in users : u.name = name}

\* user.save(): the unique index on name rejects a second document with
\* error code 11000; otherwise the document is inserted with a fresh _id.
UserSave(doc) ==
    IF findByName(doc.name) # {}
    THEN [ok |-> FALSE, code |-> 11000, users |-> users]
    ELSE [ok |-> TRUE, code |-> 0,
          users |-> users \cup {[_id |-> Cardinality(users) + 1,
                                  name |-> doc.name,
                                  password |-> Hash(doc.password)]}]

(***************************************************************************)
(* POST /auth/register.                                                    *)
(***************************************************************************)
NameMin == 3
NameMax == 30
PasswordMin == 6

ErrNameRequired == [path |-> "name", msg |-> "Le nom d'utilisateur est requis."]
ErrNameLength == [path |-> "name", msg |-> "Doit faire entre 3 et 30 caracteres."]
ErrPasswordRequired == [path |-> "password", msg |-> "Le mot de passe est requis."]
ErrPasswordLength == [path |-> "password", msg |-> "Minimum 6 caracteres."]

\* body('name').trim().escape()
SanitizeName(raw) == Escape(Trim(raw))

\* body('password').trim()
SanitizePassword(raw) == Trim(raw)

\* .notEmpty().isLength({ min: 3, max: 30 }) on the sanitized name
NameErrors(name) ==
    (IF name = <<>> THEN <<ErrNameRequired>> ELSE <<>>)
    \o (IF Len(name) < NameMin \/ Len(name) > NameMax THEN <<ErrNameLength>> ELSE <<>>)

\* the password chain with isLength({ min: 5 })
PasswordErrors_min5(password) ==
    (IF password = <<>> THEN <<ErrPasswordRequired>> ELSE <<>>)
    \o (IF Len(password) < PasswordMin - 1 THEN <<ErrPasswordLength>> ELSE <<>>)

\* .notEmpty().isLength({ min: 6 }) on the sanitized password
PasswordErrors(password) ==
    (IF password = <<>> THEN <<ErrPasswordRequired>> ELSE <<>>)
    \o (IF Len(password) < PasswordMin THEN <<ErrPasswordLength>> ELSE <<>>)

\* validationResult(req).array(): every chain's errors, none short-circuited
validationResult(rawName, rawPassword) ==
    NameErrors(SanitizeName(rawName)) \o PasswordErrors(SanitizePassword(rawPassword))

Idle == [busy |-> FALSE]

\* The handler up to `await user.save()`: validation fails and the request
\* is answered 400, or the handler suspends with the sanitized body.
RegisterRequest(rawName, rawPassword, slot) ==
    LET errors == validationResult(rawName, rawPassword) IN
    /\ pending[slot] = Idle
    /\ IF errors # <<>>
       THEN /\ resp' = [ep |-> "register", status |-> 400, errors |-> errors,
                        rawName |-> rawName, rawPassword |-> rawPassword,
                        storeFailed |-> FALSE]
            /\ UNCHANGED pending
       ELSE /\ pending' = [pending EXCEPT ![slot] =
                              [busy |-> TRUE, name |-> SanitizeName(rawName),
                               password |-> SanitizePassword(rawPassword),
                               rawName |-> rawName, rawPassword |-> rawPassword]]
            /\ UNCHANGED resp
    /\ UNCHANGED <<env, users, accepted, potions, audit, jar, copied, lastAuth, now>>

\* the catch clause without the err.code === 11000 case
RegisterAnswer_noDuplicateCase(storeUp, saved) ==
    IF storeUp /\ saved.ok THEN [status |-> 201, message |-> "Utilisateur cree"]
    ELSE [status |-> 400, error |-> "err.message"]

\* The answer the handler gives once user.save() has settled with `saved`
\* (or rejected for a reason other than the store's verdict: storeUp = FALSE).
RegisterAnswer(storeUp, saved) ==
    IF storeUp /\ saved.ok THEN [status |-> 201, message |-> "Utilisateur cree"]
    ELSE IF storeUp /\ saved.code = 11000 THEN [status |-> 500, error |-> "Erreur systeme"]
    ELSE [status |-> 400, error |-> "err.message"]

\* The handler from `await user.save()` on.
RegisterSave(slot, storeUp) ==
    /\ pending[slot] # Idle
    /\ LET req == pending[slot]
           saved == UserSave(req)
           ans == RegisterAnswer(storeUp, saved)
       IN  /\ users' = IF storeUp THEN saved.users ELSE users
           /\ accepted' = IF ans.status = 201
                          THEN accepted \cup {[name |-> req.rawName, password |-> req.rawPassword]}
                          ELSE accepted
           /\ resp' = [ep |-> "register", rawName |-> req.rawName,
                       rawPassword |-> req.rawPassword, name |-> req.name,
                       storeFailed |-> ~storeUp] @@ ans
    /\ pending' = [pending EXCEPT ![slot] = Idle]
    /\ UNCHANGED <<env, potions, audit, jar, copied, lastAuth, now>>

(***************************************************************************)
(* POST /auth/login and GET /auth/logout.                                  *)
(***************************************************************************)
\* req.bodyString(field) of the sanitize middleware: what it does to a
\* string depends on the installed build (env.sanitize).
bodyString(raw) ==
    LET t == IF env.sanitize.trim THEN Trim(raw) ELSE raw
    IN  IF env.sanitize.escape THEN Escape(t) ELSE t

\* whether the cookie value is a token with a valid signature under the
\* configured secret that has not expired at time t
Genuine(value, t) ==
    /\ value.kind = "jwt"
    /\ env.JWT_SECRET # Unset
    /\ value.sig.key = env.JWT_SECRET
    /\ value.sig.over = value.claims
    /\ \A exp \in value.claims.exp : t < exp

\* The body of the login handler when the store answers.
LoginOutcome(rawName, rawPassword) ==
    LET name == bodyString(rawName)
        password == bodyString(rawPassword)
        found == findByName(name)
    IN  IF found = {} \/ \A u \in found : ~comparePassword(u, password)
        THEN [status |-> 401, error |-> "Identifiants invalides", setCookie |-> FALSE]
        ELSE LET user == CHOOSE u \in found : TRUE IN
             [status |-> 200, message |-> "Connecte avec succes", setCookie |-> TRUE,
              cookieName |-> AuthCookieName,
              token |-> jwtSign([id |-> user._id, name |-> user.name], AuthSecret, now)]

\* When User.findOne rejects, nothing catches it: the request is left
\* unanswered (Express 4) or answered by the default error handler with a
\* 500 HTML page (Express 5).
LoginCrash == {[status |-> 0, setCookie |-> FALSE, unanswered |-> TRUE],
               [status |-> 500, setCookie |-> FALSE, html |-> TRUE]}

Login(rawName, rawPassword, storeUp, copy) ==
    /\ \E out \in (IF storeUp THEN {LoginOutcome(rawName, rawPassword)} ELSE LoginCrash) :
          /\ resp' = [ep |-> "login", rawName |-> rawName, rawPassword |-> rawPassword,
                      at |-> now, storeFailed |-> ~storeUp] @@ out
          /\ jar' = IF out.setCookie THEN [jar EXCEPT ![out.cookieName] = out.token] ELSE jar
          /\ lastAuth' = IF out.setCookie THEN "login" ELSE lastAuth
          /\ copied' = IF out.setCookie /\ copy THEN out.token ELSE copied
    /\ UNCHANGED <<env, users, accepted, potions, audit, now, pending>>

\* logout that answers without clearing the cookie
Logout_keepsCookie ==
    /\ resp' = [ep |-> "logout", status |-> 200, message |-> "Deconnecte",
                cleared |-> AuthCookieName, storeFailed |-> FALSE]
    /\ lastAuth' = "logout"
    /\ UNCHANGED <<env, users, accepted, potions, audit, jar, copied, now, pending>>

\* res.clearCookie(COOKIE_NAME); res.json({ message })
Logout ==
    /\ jar' = [jar EXCEPT ![AuthCookieName] = NoCookie]
    /\ resp' = [ep |-> "logout", status |-> 200, message |-> "Deconnecte",
                cleared |-> AuthCookieName, storeFailed |-> FALSE]
    /\ lastAuth' = "logout"
    /\ UNCHANGED <<env, users, accepted, potions, audit, copied, now, pending>>

(***************************************************************************)
(* The Potion collection and its queries.                                  *)
(***************************************************************************)
\* new Potion(body).save(): the schema's casts fail on an ill-typed body;
\* otherwise the document is stored as given, with a generated _id.
PotionSave(body) ==
    IF ~body.typed THEN [ok |-> FALSE, potions |-> potions]
    ELSE [ok |-> TRUE, doc |-> [_id |-> Len(potions) + 1] @@ body,
          potions |-> Append(potions, [_id |-> Len(potions) + 1] @@ body)]

Docs == {potions[i] : i \in 1..Len(potions)}

RECURSIVE SumOf(_, _)
\* the sum of field f over the sequence of records es
SumOf(es, f) == IF es = <<>> THEN 0 ELSE Head(es)[f] + SumOf(Tail(es), f)

\* grouping on the first category only, without the $unwind stage
RECURSIVE Unwind_firstOnly(_)
Unwind_firstOnly(ps) ==
    IF ps = <<>> THEN <<>>
    ELSE [i \in 1..(IF Head(ps).categories = <<>> THEN 0 ELSE 1) |->
             [Head(ps) EXCEPT !.categories = Head(ps).categories[i]]]
         \o Unwind_firstOnly(Tail(ps))

\* { $unwind: "$categories" }: one entry per element of each document's
\* categories array, in order; a document with an empty array yields none.
RECURSIVE Unwind(_)
Unwind(ps) ==
    IF ps = <<>> THEN <<>>
    ELSE [i \in 1..Len(Head(ps).categories) |->
             [Head(ps) EXCEPT !.categories = Head(ps).categories[i]]]
         \o Unwind(Tail(ps))

\* the subsequence of es whose field key equals id
RECURSIVE Matching(_, _, _)
Matching(es, key, id) ==
    IF es = <<>> THEN <<>>
    ELSE (IF Head(es)[key] = id THEN <<Head(es)>> ELSE <<>>) \o Matching(Tail(es), key, id)

\* { $group: { _id: "$key", <out>: { $avg | $sum: "$field" } } } over the
\* entries es.  An average is kept exact, as the pair sum / n.
GroupBy(es, key, metric, field) ==
    {[_id |-> id,
      value |-> IF metric = "avg"
                THEN [sum |-> SumOf(Matching(es, key, id), field),
                      n |-> Len(Matching(es, key, id))]
                ELSE [sum |-> SumOf(Matching(es, key, id), field), n |-> 1]]
     : id \in {es[i][key] : i \in 1..Len(es)}}

\* the pipeline of GET /potions/analytics/average-score-by-category
AverageScoreByCategory(ps) == GroupBy(Unwind(ps), "categories", "avg", "score")

\* the pipeline of GET /potions/analytics/average-score-by-vendor
AverageScoreByVendor(ps) == GroupBy(ps, "vendor_id", "avg", "score")

\* Potion.distinct('categories')
DistinctCategories(ps) ==
    UNION {{ps[i].categories[j] : j \in 1..Len(ps[i].categories)} : i \in 1..Len(ps)}

NaN == [nan |-> TRUE, val |-> 0]

DigitVal(c) ==
    CASE c = "0" -> 0 [] c = "1" -> 1 [] c = "2" -> 2 [] c = "3" -> 3 [] c = "4" -> 4
      [] c = "5" -> 5 [] c = "6" -> 6 [] c = "7" -> 7 [] c = "8" -> 8 [] c = "9" -> 9
      [] OTHER -> 0 - 1

RECURSIVE DigitPrefix(_, _, _)
\* the value of the longest prefix of digits of s, after acc (seen: a digit was read)
DigitPrefix(s, acc, seen) ==
    IF s # <<>> /\ DigitVal(Head(s)) >= 0
    THEN DigitPrefix(Tail(s), 10 * acc + DigitVal(Head(s)), TRUE)
    ELSE IF seen THEN [nan |-> FALSE, val |-> acc] ELSE NaN

\* parseFloat(s) on the inputs used here: leading whitespace skipped, the
\* longest numeric prefix read, NaN when there is none (or s is undefined).
parseFloat(s) == DigitPrefix(TrimLeft(s), 0, FALSE)

\* what a handler sends: `result` when the store answered, and the catch
\* clause's 500 {error: err.message} when the store call rejected
Caught(ok, result) ==
    IF ok THEN [status |-> 200, body |-> result]
    ELSE [status |-> 500, error |-> "err.message"]

Answer(ep, storeUp, r) ==
    /\ resp' = [ep |-> ep, storeFailed |-> ~storeUp] @@ r
    /\ UNCHANGED <<env, users, accepted, potions, audit, jar, copied, lastAuth, now, pending>>

\* GET /potions
GetAll(storeUp) == Answer("GET /potions", storeUp, Caught(storeUp, potions))

\* GET /potions/names
GetNames(storeUp) ==
    Answer("GET /potions/names", storeUp,
           Caught(storeUp, [i \in 1..Len(potions) |-> potions[i].name]))

\* GET /potions/vendor/:vendor_id
GetByVendor(vendorId, storeUp) ==
    Answer("GET /potions/vendor", storeUp,
           [vendor_id |-> vendorId]
           @@ Caught(storeUp, Matching(potions, "vendor_id", vendorId)))

\* the potions with min <= price <= max, in order
RECURSIVE InRange(_, _, _)
InRange(ps, min, max) ==
    IF ps = <<>> THEN <<>>
    ELSE (IF Head(ps).price >= min /\ Head(ps).price <= max THEN <<Head(ps)>> ELSE <<>>)
         \o InRange(Tail(ps), min, max)

\* GET /potions/price-range?min=&max= : a NaN bound fails the query's cast
GetPriceRange(min, max, storeUp) ==
    LET lo == parseFloat(min)
        hi == parseFloat(max)
    IN  Answer("GET /potions/price-range", storeUp,
               [min |-> min, max |-> max]
               @@ Caught(storeUp /\ ~lo.nan /\ ~hi.nan,
                         IF lo.nan \/ hi.nan THEN <<>> ELSE InRange(potions, lo.val, hi.val)))

\* GET /potions/analytics/distinct-categories
GetDistinctCategories(storeUp) ==
    Answer("GET /potions/analytics/distinct-categories", storeUp,
           Caught(storeUp, [distinctCategories |-> Cardinality(DistinctCategories(potions))]))

\* GET /potions/analytics/average-score-by-vendor
GetAverageScoreByVendor(storeUp) ==
    Answer("GET /potions/analytics/average-score-by-vendor", storeUp,
           Caught(storeUp, AverageScoreByVendor(potions)))

\* GET /potions/analytics/average-score-by-category
GetAverageScoreByCategory(storeUp) ==
    Answer("GET /potions/analytics/average-score-by-category", storeUp,
           Caught(storeUp, AverageScoreByCategory(potions)))

\* GET /potions/analytics/strength-flavor-ratio: $divide by zero fails the
\* aggregation; otherwise each document gives {name, ratio}, kept as a pair.
GetStrengthFlavorRatio(storeUp) ==
    Answer("GET /potions/analytics/strength-flavor-ratio", storeUp,
           Caught(storeUp /\ \A d \in Docs : d.flavor # 0,
                  [i \in 1..Len(potions) |->
                      [name |-> potions[i].name,
                       ratio |-> [num |-> potions[i].strength, den |-> potions[i].flavor]]]))

Metrics == {"avg", "sum"}

\* GET /potions/analytics/search?groupBy=&metric=&field= : "" is a missing
\* parameter; a metric that is no accumulator fails the aggregation.
GetSearch(groupBy, metric, field, storeUp) ==
    Answer("GET /potions/analytics/search", storeUp,
           [groupBy |-> groupBy, metric |-> metric, field |-> field]
           @@ (IF groupBy = "" \/ metric = "" \/ field = ""
               THEN [status |-> 400,
                     error |-> "Missing required query parameters: groupBy, metric, field"]
               ELSE Caught(storeUp /\ metric \in Metrics,
                           IF metric \in Metrics
                           THEN GroupBy(potions, groupBy, metric, field) ELSE {})))

\* the creation handler behind the middleware: 201 with the saved document,
\* or the catch clause's 400 {error: err.message}
CreateOutcome(body, storeUp) ==
    LET saved == PotionSave(body) IN
    IF storeUp /\ saved.ok
    THEN [status |-> 201, body |-> saved.doc, potions |-> saved.potions]
    ELSE [status |-> 400, error |-> "err.message", potions |-> potions]

\* POST /potions with req.cookies = cookies and req.body = body
PostPotion(cookies, via, body, storeUp) ==
    LET auth == authMiddleware(cookies, now) IN
    /\ (auth.next /\ storeUp /\ body.typed) => Len(potions) < MaxPotions
    /\ IF auth.next
       THEN LET out == CreateOutcome(body, storeUp) IN
            /\ potions' = out.potions
            /\ audit' = IF out.status = 201
                        THEN Append(audit, Genuine(cookies[MwCookieName], now))
                        ELSE audit
            /\ resp' = [ep |-> "POST /potions", via |-> via, cookie |-> cookies[MwCookieName],
                        at |-> now, sent |-> body, handled |-> TRUE,
                        storeFailed |-> ~storeUp, user |-> auth.user]
                       @@ [x \in {"status", "body", "error"} \cap DOMAIN out |-> out[x]]
       ELSE /\ resp' = [ep |-> "POST /potions", via |-> via, cookie |-> cookies[MwCookieName],
                        at |-> now, sent |-> body, handled |-> FALSE,
                        storeFailed |-> FALSE, status |-> auth.status, error |-> auth.error]
            /\ UNCHANGED <<potions, audit>>
    /\ UNCHANGED <<env, users, accepted, jar, copied, lastAuth, now, pending>>

\* the browser sends its jar
PostPotionBrowser(body, storeUp) == PostPotion(jar, "browser", body, storeUp)

\* any other client sends the cookie value it likes
PostPotionClient(value, body, storeUp) ==
    PostPotion([c \in CookieNames |-> IF c = MwCookieName THEN value ELSE NoCookie],
               "client", body, storeUp)

\* time passes
TickStep == 12

Tick ==
    /\ now + TickStep <= MaxTime
    /\ now' = now + TickStep
    /\ UNCHANGED <<env, users, accepted, potions, audit, jar, copied, lastAuth, pending, resp>>

(***************************************************************************)
(* Request inputs.                                                         *)
(***************************************************************************)
Bob == <<"b", "o", "b">>
BobPadded == <<" ">> \o Bob \o <<" ">>
HtmlName == <<"a", "<", "b">>
TwoChars == <<"a", "b">>
BlankName == <<" ", " ">>
Long31 == Rep("a", NameMax + 1)
Long29Html == Rep("a", NameMax - 2) \o <<"<">>

Secret == <<"s", "e", "c", "r", "e", "t">>
HtmlSecret == <<"s", "<", "c", "r", "e", "t">>
Five == <<"1", "2", "3", "4", "5">>
FivePadded == Five \o <<" ">>
EmptyStr == <<>>

\* the bodies sent to /auth/register and /auth/login
AccountNames == {Bob, BobPadded, HtmlName, TwoChars, BlankName, Long31, Long29Html}
AccountPasswords == {Secret, HtmlSecret, Five, FivePadded, EmptyStr}
PlainNames == {Bob}
PlainPasswords == {Secret, Five}

Potion(name, price, score, categories, vendor, strength, flavor) ==
    [typed |-> TRUE, name |-> name, price |-> price, score |-> score,
     categories |-> categories, vendor_id |-> vendor, strength |-> strength,
     flavor |-> flavor]

Elixir == Potion("elixir", 10, 4, <<"heal", "rare">>, "v1", 6, 3)
Tonic == Potion("tonic", 20, 8, <<"heal">>, "v2", 4, 2)
Brew == Potion("brew", 15, 3, <<"heal", "heal">>, "v1", 5, 0)
Water == Potion("water", 25, 6, <<>>, "v2", 1, 1)
\* a body whose price is not a number
IllTyped == [Elixir EXCEPT !.typed = FALSE]

PotionBodies == {Elixir, Tonic, Brew, Water, IllTyped}
FewBodies == {Elixir, IllTyped}

\* the tokens a client can present besides the one it copied: signed with
\* the configured secret or another key, with or without nbf, and altered
\* after signing
OtherKey == "other_key"

Claims(name, nbf, exp) == [id |-> 1, name |-> name, iat |-> 0, nbf |-> nbf, exp |-> exp]

Signed(key, claims) == Jwt(claims, Hmac(key, claims))

Tampered(token) == Jwt([token.claims EXCEPT !.exp = {MaxTime + TTL}], token.sig)

ClientTokens ==
    LET keys == {env.JWT_SECRET, DevSecret, OtherKey} \ {Unset}
        made == {Signed(k, Claims(Bob, nbf, exp)) :
                    k \in keys, nbf \in {{}, {TickStep}}, exp \in {{}, {TickStep}, {TTL}}}
    IN  made \cup {Tampered(t) : t \in made}

ClientCookies ==
    {NoCookie, ObjCookie, StrCookie(<<>>), StrCookie(<<" ">>), StrCookie(<<"x", ".", "y">>)}
    \cup ClientTokens

(***************************************************************************)
(* The system.                                                             *)
(***************************************************************************)
Secrets == {Unset, "env_secret"}

CookieNameSettings == {Unset, "custom_cookie"}

\* what req.bodyString may do to a string, by build of the sanitize package
Builds == [trim : BOOLEAN, escape : BOOLEAN]

\* on the plain bodies (no padding, no HTML character) every build agrees
AnyBuild == {[trim |-> FALSE, escape |-> FALSE]}

InitWith(secrets, cookieNames, builds) ==
    /\ env \in [JWT_SECRET : secrets, COOKIE_NAME : cookieNames, sanitize : builds]
    /\ users = {}
    /\ accepted = {}
    /\ potions = <<>>
    /\ audit = <<>>
    /\ jar = [c \in CookieNames |-> NoCookie]
    /\ copied = NoCookie
    /\ lastAuth = "none"
    /\ now = 0
    /\ pending = [s \in 1..MaxInflight |-> Idle]
    /\ resp = [ep |-> "none", status |-> 0, storeFailed |-> FALSE]

Init == InitWith(Secrets, CookieNameSettings, AnyBuild)

\* registrations whose handlers may interleave at the await
Register(names, passwords) ==
    \/ \E n \in names, p \in passwords, s \in 1..MaxInflight : RegisterRequest(n, p, s)
    \/ \E s \in 1..MaxInflight, up \in BOOLEAN : RegisterSave(s, up)

\* registrations handled one after the other
RegisterInTurn(names, passwords) ==
    \/ \E n \in names, p \in passwords : RegisterRequest(n, p, 1)
    \/ \E up \in BOOLEAN : RegisterSave(1, up)

Reads ==
    \/ \E up \in BOOLEAN : GetAll(up)
    \/ \E up \in BOOLEAN : GetNames(up)
    \/ \E up \in BOOLEAN : GetByVendor("v1", up)
    \/ \E min \in {<<"1", "0">>, <<"x">>}, up \in BOOLEAN : GetPriceRange(min, <<"2", "0">>, up)
    \/ \E up \in BOOLEAN : GetDistinctCategories(up)
    \/ \E up \in BOOLEAN : GetAverageScoreByVendor(up)
    \/ \E up \in BOOLEAN : GetAverageScoreByCategory(up)
    \/ \E up \in BOOLEAN : GetStrengthFlavorRatio(up)
    \/ \E g \in {"vendor_id", ""}, m \in {"avg", "count"}, up \in BOOLEAN :
          GetSearch(g, m, "score", up)

\* every endpoint, with plain request bodies
Next ==
    \/ RegisterInTurn(PlainNames, PlainPasswords)
    \/ \E n \in PlainNames, p \in PlainPasswords, up \in BOOLEAN : Login(n, p, up, FALSE)
    \/ Logout
    \/ Reads
    \/ \E b \in FewBodies, up \in BOOLEAN : PostPotionBrowser(b, up)
    \/ \E v \in {NoCookie, StrCookie(<<"x", ".", "y">>)}, b \in FewBodies, up \in BOOLEAN :
          PostPotionClient(v, b, up)
    \/ Tick

Spec == Init /\ [][Next]_vars

\* the session: login, logout, a copied token, the creation endpoint, time
NextSession ==
    \/ RegisterInTurn(PlainNames, {Secret})
    \/ \E p \in PlainPasswords, copy \in BOOLEAN : Login(Bob, p, TRUE, copy)
    \/ Logout
    \/ PostPotionBrowser(Elixir, TRUE)
    \/ \E v \in {NoCookie, copied} : PostPotionClient(v, Elixir, TRUE)
    \/ Tick

SpecSession == Init /\ [][NextSession]_vars

\* register then login, with bodies that the sanitizers change
LoginNames == {Bob, HtmlName}
LoginPasswords == {Secret, HtmlSecret}

NextLogin ==
    \/ RegisterInTurn(LoginNames, LoginPasswords)
    \/ \E n \in LoginNames, p \in LoginPasswords, up \in BOOLEAN : Login(n, p, up, FALSE)
    \/ Logout

InitLogin == InitWith({Unset}, {Unset}, Builds)

SpecLogin == InitLogin /\ [][NextLogin]_vars

\* registration, with every kind of body and interleaved handlers
NextRegister == Register(AccountNames, AccountPasswords)

InitRegister == InitWith({Unset}, {Unset}, AnyBuild)

SpecRegister == InitRegister /\ [][NextRegister]_vars

\* the creation endpoint, with every kind of cookie value
NextMiddleware ==
    \/ \E v \in ClientCookies, b \in FewBodies, up \in BOOLEAN : PostPotionClient(v, b, up)
    \/ Tick

InitMiddleware == InitWith(Secrets, {Unset}, AnyBuild)

SpecMiddleware == InitMiddleware /\ [][NextMiddleware]_vars

\* the potion collection and its queries, with every kind of document
SessionToken == Signed("env_secret", Claims(Bob, {}, {TTL}))

NextPotions ==
    \/ \E v \in {NoCookie, SessionToken}, b \in PotionBodies, up \in BOOLEAN :
          PostPotionClient(v, b, up)
    \/ Reads

InitPotions == InitWith({"env_secret"}, {Unset}, AnyBuild)

SpecPotions == InitPotions /\ [][NextPotions]_vars

(***************************************************************************)
(* Properties.                                                             *)
(***************************************************************************)
ReadEndpoints ==
    {"GET /potions", "GET /potions/names", "GET /potions/vendor", "GET /potions/price-range",
     "GET /potions/analytics/distinct-categories",
     "GET /potions/analytics/average-score-by-vendor",
     "GET /potions/analytics/average-score-by-category",
     "GET /potions/analytics/strength-flavor-ratio", "GET /potions/analytics/search"}

IsPost(r) == r.ep = "POST /potions"

\* C1: every potion in the store was appended by a POST /potions request
\* answered 201 whose cookie held a token with a valid signature that had
\* not expired at that time; no other step (a read or analytics endpoint,
\* register, login, logout) adds, changes or removes a potion; and the read
\* endpoints, which take no cookie, never answer 401.
C1_PotionsOnlyByVerifiedPost ==
    [][/\ potions' # potions =>
             /\ IsPost(resp') /\ resp'.status = 201
             /\ Genuine(resp'.cookie, now)
             /\ Len(potions') = Len(potions) + 1
             /\ SubSeq(potions', 1, Len(potions)) = potions
       /\ Len(audit') = Len(potions')
       /\ \A i \in 1..Len(audit') : audit'[i]
       /\ resp'.ep \in ReadEndpoints => resp'.status \in {200, 400, 500}
      ]_vars

\* a read answered 200 after a potion was created
C1_Witness ==
    /\ Len(potions) >= 1
    /\ resp.ep = "GET /potions/names"
    /\ resp.status = 200

CorrectlySigned(v) ==
    /\ v.kind = "jwt"
    /\ MwSecret # Unset
    /\ v.sig.key = MwSecret
    /\ v.sig.over = v.claims

ExpiredAt(v, t) == \E e \in v.claims.exp : e <= t

NotYetValid(v, t) == \E n \in v.claims.nbf : n > t

AllSpaces(text) == \A i \in 1..Len(text) : text[i] = " "

\* what the middleware does with each kind of cookie value
MiddlewareOutcomes(r) ==
    LET v == r.cookie
        t == r.at
    IN  /\ r.handled <=> r.status \in {201, 400}
        /\ ~r.handled <=> (r.status \in {401, 500} /\ "user" \notin DOMAIN r)
        /\ r.handled =>
              /\ r.user = v.claims
              /\ CorrectlySigned(v) /\ ~ExpiredAt(v, t) /\ ~NotYetValid(v, t)
        /\ (v.kind \in {"absent", "object"} \/ (v.kind = "string" /\ AllSpaces(v.text))) =>
              r.status = 401 /\ r.error = MsgMissing
        /\ (CorrectlySigned(v) /\ ExpiredAt(v, t) /\ ~NotYetValid(v, t)) =>
              r.status = 401 /\ r.error = MsgExpired
        /\ ((v.kind = "string" /\ ~AllSpaces(v.text)) \/ (v.kind = "jwt" /\ ~CorrectlySigned(v))) =>
              r.status = 401 /\ r.error = MsgInvalid
        /\ (CorrectlySigned(v) /\ NotYetValid(v, t)) =>
              r.status = 500 /\ r.error = MsgAuthError
        /\ MsgInvalid # MsgExpired

Echoes(r) ==
    /\ r.body = [_id |-> r.body._id] @@ r.sent
    /\ r.body._id \in 1..Len(potions)
    /\ potions[r.body._id] = r.body

C3_LoginAfterRegister ==
    (resp.ep = "login" /\ ~resp.storeFailed) =>
        IF [name |-> resp.rawName, password |-> resp.rawPassword] \in accepted
        THEN /\ resp.status = 200
             /\ resp.setCookie
             /\ resp.token.claims.name = SanitizeName(resp.rawName)
             /\ jar[AuthCookieName] = resp.token
        ELSE /\ resp.status = 401
             /\ ~resp.setCookie

Taken(name) == \E u \in users : u.name = name

OnePerName == \A u1, u2 \in users : u1.name = u2.name => u1 = u2

\* slot s's handler resumed from its await in this step
Saved(s) == pending[s] # Idle /\ pending'[s] = Idle

\* what holds of every step, whatever the later registrations answer
RegisterKeepsNamesUnique ==
    /\ OnePerName'
    /\ users' # users =>
          /\ resp'.ep = "register" /\ resp'.status = 201
          /\ ~Taken(resp'.name)
          /\ \E u \in users' : u.name = resp'.name /\ users' = users \cup {u}
    /\ \A s \in 1..MaxInflight : Saved(s) =>
          /\ resp'.ep = "register" /\ resp'.name = pending[s].name
          /\ resp'.status # 201 => users' = users
          /\ (~Taken(pending[s].name) /\ ~resp'.storeFailed) => resp'.status = 201
          /\ Taken(pending[s].name) => resp'.status \notin 200..299

C5_LogoutThenPost ==
    [][/\ (lastAuth' = "logout" /\ IsPost(resp') /\ resp'.via = "browser") =>
             resp'.status = 401 /\ ~resp'.handled
       /\ (lastAuth = "logout" /\ IsPost(resp') /\ resp'.via = "browser") =>
             potions' = potions
       /\ lastAuth' = "logout" => jar'[AuthCookieName] = NoCookie
       /\ resp'.ep = "logout" => resp'.status = 200
       /\ (lastAuth = "logout" /\ lastAuth' = "logout") => jar' = jar
      ]_vars

\* the browser was refused after logging out of a session that could create
C5_Witness ==
    /\ lastAuth = "logout"
    /\ IsPost(resp) /\ resp.via = "browser"
    /\ resp.status = 401
    /\ Len(potions) >= 1

\* C6: a copied token is accepted by the middleware at every time before its
\* expiry, whatever logouts and logins happened, and answered with the
\* session-expired 401 at every time after.
C6_CopiedTokenUntilExpiry ==
    (IsPost(resp) /\ resp.via = "client" /\ resp.cookie.kind = "jwt") =>
        /\ (\A e \in resp.cookie.claims.exp : resp.at < e) => resp.handled
        /\ (\E e \in resp.cookie.claims.exp : resp.at > e) =>
              resp.status = 401 /\ resp.error = MsgExpired

\* C7: a registration whose password is shorter than 6 after trimming, or
\* whose name is not 3 to 30 long after trimming and escaping, is answered
\* 400 with exactly the violated rules listed, and persists nothing; no
\* stored user has such a name or password.
ViolatedRules(rawName, rawPassword) ==
    LET n == Len(Escape(Trim(rawName)))
        p == Len(Trim(rawPassword))
    IN  (IF n = 0 THEN {ErrNameRequired} ELSE {})
        \cup (IF n < 3 \/ n > 30 THEN {ErrNameLength} ELSE {})
        \cup (IF p = 0 THEN {ErrPasswordRequired} ELSE {})
        \cup (IF p < 6 THEN {ErrPasswordLength} ELSE {})

C7_ValidationRejects ==
    [][/\ (resp'.ep = "register"
           /\ (Len(Trim(resp'.rawPassword)) < 6
               \/ Len(Escape(Trim(resp'.rawName))) \notin 3..30)) =>
             /\ resp'.status = 400
             /\ "errors" \in DOMAIN resp'
       /\ (resp'.ep = "register" /\ "errors" \in DOMAIN resp') =>
             /\ {resp'.errors[i] : i \in 1..Len(resp'.errors)}
                   = ViolatedRules(resp'.rawName, resp'.rawPassword)
             /\ Len(resp'.errors) = Cardinality(ViolatedRules(resp'.rawName, resp'.rawPassword))
             /\ resp'.errors # <<>>
             /\ resp' # resp => users' = users /\ pending' = pending
       /\ \A u \in users' : Len(u.name) \in 3..30 /\ Len(u.password.hashOf) >= 6
      ]_vars

\* a body with a valid name and a password of five characters after
\* trimming was rejected while a user was stored
C7_Witness ==
    /\ resp.ep = "register"
    /\ resp.status = 400
    /\ resp.rawName = Bob
    /\ resp.rawPassword = FivePadded
    /\ users # {}

\* C8: a request during which the store failed is answered, once, with 500
\* and a JSON body {error: message}.
C8_StoreFailureIs500 ==
    resp.storeFailed =>
        /\ resp.status = 500
        /\ "error" \in DOMAIN resp

\* the scores of the documents of ps that list category c, once per document
RECURSIVE ScoresListing(_, _)
ScoresListing(ps, c) ==
    IF ps = <<>> THEN <<>>
    ELSE (IF \E j \in 1..Len(Head(ps).categories) : Head(ps).categories[j] = c
          THEN <<[score |-> Head(ps).score, times |-> 1]>> ELSE <<>>)
         \o ScoresListing(Tail(ps), c)

\* the same, with the number of times each document lists c
RECURSIVE ScoresWeighted(_, _)
ScoresWeighted(ps, c) ==
    IF ps = <<>> THEN <<>>
    ELSE LET k == Cardinality({j \in 1..Len(Head(ps).categories) : Head(ps).categories[j] = c})
         IN  (IF k > 0 THEN <<[score |-> k * Head(ps).score, times |-> k]>> ELSE <<>>)
             \o ScoresWeighted(Tail(ps), c)

CategoriesOf(ps) ==
    UNION {{ps[i].categories[j] : j \in 1..Len(ps[i].categories)} : i \in 1..Len(ps)}

IsCategoryReport(r) ==
    r.ep = "GET /potions/analytics/average-score-by-category" /\ r.status = 200

OneGroupPerCategory(r) ==
    /\ {g._id : g \in r.body} = CategoriesOf(potions)
    /\ Cardinality(r.body) = Cardinality(CategoriesOf(potions))
    \* a potion with N distinct categories is in N groups, one with none in no group
    /\ \A i \in 1..Len(potions) :
          Cardinality({g \in r.body : \E j \in 1..Len(potions[i].categories) :
                                         potions[i].categories[j] = g._id})
             = Cardinality({potions[i].categories[j] : j \in 1..Len(potions[i].categories)})

\* C9 as stated: one group per category that occurs, whose averageScore is
\* the average of the scores of the potions listing the category.
C9_Original ==
    IsCategoryReport(resp) =>
        /\ OneGroupPerCategory(resp)
        /\ \A g \in resp.body :
              g.value.sum * SumOf(ScoresListing(potions, g._id), "times")
                 = SumOf(ScoresListing(potions, g._id), "score") * g.value.n

\* C9 amended: one group per category that occurs, whose averageScore is the
\* average of the scores over the category's entries: a potion that lists
\* the category k times is counted k times in that average.
C9_AverageByCategory ==
    IsCategoryReport(resp) =>
        /\ OneGroupPerCategory(resp)
        /\ \A g \in resp.body :
              /\ g.value.n > 0
              /\ g.value.sum * SumOf(ScoresWeighted(potions, g._id), "times")
                    = SumOf(ScoresWeighted(potions, g._id), "score") * g.value.n

\* two potions share one category and one of them has a second one
C9_Witness ==
    /\ IsCategoryReport(resp)
    /\ Cardinality(resp.body) = 2
    /\ Len(potions) = 2
    /\ \E g \in resp.body : g.value.n = 2

\* C10: login and the middleware agree on the secret and the cookie name,
\* so the browser's POST /potions after a successful login, before the
\* token expires, is never answered 401.
C10_LoginThenPost ==
    (lastAuth = "login" /\ IsPost(resp) /\ resp.via = "browser"
     /\ \A e \in jar[AuthCookieName].claims.exp : resp.at < e) =>
        resp.status # 401

====
